---- MODULE Spec2Model ----
(***************************************************************************)
(* Model of the feedback collector: the FeedbackData / FeedbackCollector   *)
(* classes (src/src/core/feedback_collector.py), the reusable dialog       *)
(* ModernFeedbackDialog (src/src/ui/feedback_dialog.py), the environment   *)
(* validation (src/src/utils/gui_utils.py) and the tool handler and        *)
(* cleanup of the server (src/src/server.py).                              *)
(*                                                                         *)
(* Strings are sequences of characters, Python's None is a value of its    *)
(* own, dicts are records.  Variables that are not fields of the program   *)
(* are history variables and are marked "history".                         *)
(***************************************************************************)
EXTENDS Integers, Sequences, FiniteSets, TLC

\* ------------------------------------------------------------- bounds
MaxTextLen == 2      \* longest text typed or passed to add_text_feedback
MaxImages  == 2      \* most images held by a gallery or a FeedbackData
MaxQueue   == 2      \* most unconsumed results in result_queue
MaxCycles  == 2      \* most show_dialog calls in one run
MaxHeld    == 1      \* most images held by the session of a FeedbackCollector
MaxSession == 3      \* most images held by a FeedbackData driven directly
MaxPending == 1      \* most tool requests received and not yet handled
MaxThreads == 2      \* most threads inside collect_feedback at one time
MaxDialogs == 3      \* most ModernFeedbackDialog instances made in one run

\* ------------------------------------------------------------- values
Chars == {" ", "a"}

Texts == UNION {[1..n -> Chars] : n \in 0..MaxTextLen}

\* Python's None where a str is expected (never equal to a text over Chars).
NoneText == <<"None">>

\* The timeouts a process may be configured with (seconds): negative, zero
\* and positive.
Timeouts == {-1, 0, 1}

\* An image dict as ImageHandler returns it, cut to the keys the collector
\* and the dialog read.
ClipboardImages == { [data |-> "png", source |-> "clipboard"] }
FileImages == { [data |-> "jpg", source |-> "file"] }

\* Python's None where an image dict is expected.
NoImage == [data |-> "None", source |-> "None"]

\* ImageHandler.MAX_IMAGE_SIZE (pixels, each way) and MAX_FILE_SIZE (bytes).
MAX_IMAGE_SIZE == 4096
MAX_FILE_SIZE == 10485760

\* A path the file chooser hands back, as ImageHandler.load_from_file sees
\* it: whether it exists, its length in bytes, whether its suffix is one of
\* SUPPORTED_FORMATS, the format PIL finds in its content ("none": PIL
\* cannot identify it) and its pixel size.
File(exists, file_size, supported, format, width, height) ==
  [exists |-> exists, file_size |-> file_size, supported |-> supported,
   format |-> format, width |-> width, height |-> height]

Files ==
  { File(FALSE, 0, TRUE, "none", 0, 0),
    File(TRUE, 0, TRUE, "none", 0, 0),
    File(TRUE, 1024, FALSE, "PNG", 1, 1),
    File(TRUE, 1024, TRUE, "PNG", 1, 1),
    File(TRUE, MAX_FILE_SIZE, TRUE, "JPEG", MAX_IMAGE_SIZE, MAX_IMAGE_SIZE),
    File(TRUE, MAX_FILE_SIZE + 1, TRUE, "PNG", 1, 1),
    File(TRUE, 1024, TRUE, "PNG", MAX_IMAGE_SIZE + 1, 1),
    File(TRUE, 1024, TRUE, "JPEG", 1, MAX_IMAGE_SIZE + 1) }

\* What ImageGrab.grabclipboard() finds: nothing, a list of file names, a
\* failure of the platform call, or an image, given by its pixel size and
\* by the number of bytes its PNG encoding takes. A PNG of w x h pixels
\* that do not compress takes about 4 bytes a pixel.
Clip(kind, width, height, png_bytes) ==
  [kind |-> kind, width |-> width, height |-> height, png_bytes |-> png_bytes]

Clipboards ==
  { Clip("none", 0, 0, 0), Clip("files", 0, 0, 0), Clip("error", 0, 0, 0),
    Clip("image", 1, 1, 1024),
    Clip("image", MAX_IMAGE_SIZE, MAX_IMAGE_SIZE, MAX_FILE_SIZE),
    Clip("image", MAX_IMAGE_SIZE, MAX_IMAGE_SIZE, MAX_FILE_SIZE + 1),
    Clip("image", MAX_IMAGE_SIZE + 1, 1, 1024),
    Clip("image", 1, MAX_IMAGE_SIZE + 1, 1024) }

\* What the callers of the collector's interface pass to add_text_feedback
\* and add_image.
SessionTexts == {NoneText, <<>>, <<" ">>, <<" ", "a">>}
EmptyImage == [data |-> "", source |-> "file"]
SessionImages == ClipboardImages \cup {EmptyImage}

\* The limits validate_feedback enforces.
MAX_TEXT_LENGTH == 10000
MAX_IMAGE_COUNT == 10

\* A text of n characters with no blank in it.
LongText(n) == [i \in 1..n |-> "a"]

\* A list of n images in which those at the positions in bad have no payload.
ImageList(n, bad) ==
  [i \in 1..n |-> IF i \in bad THEN EmptyImage
                  ELSE [data |-> "png", source |-> "clipboard"]]

\* Sessions as the mutators of FeedbackData leave them (the text stored is
\* trimmed and non-empty, the flags follow the contents), up to and just
\* past the limits of validate_feedback.
Sessions ==
  { [text_feedback |-> t, images |-> ImageList(n, bad),
     has_text |-> t # <<"None">>, has_images |-> n > 0] :
      t \in {<<"None">>, <<"a">>, LongText(MAX_TEXT_LENGTH), LongText(MAX_TEXT_LENGTH + 1)},
      n \in {0, 1, 2, MAX_IMAGE_COUNT, MAX_IMAGE_COUNT + 1},
      bad \in {b \in SUBSET {1, 2, MAX_IMAGE_COUNT + 1} : Cardinality(b) <= 2} }

RECURSIVE lstrip(_)
lstrip(s) == IF s = <<>> THEN s
             ELSE IF Head(s) = " " THEN lstrip(Tail(s)) ELSE s

RECURSIVE rstrip(_)
rstrip(s) == IF s = <<>> THEN s
             ELSE IF s[Len(s)] = " " THEN rstrip(SubSeq(s, 1, Len(s) - 1)) ELSE s

\* str.strip()
strip(s) == rstrip(lstrip(s))

\* list.pop() taking the last element whatever the index
pop_last(l, index) == SubSeq(l, 1, Len(l) - 1)

\* list.pop(index) for 0 <= index < len, index counted from 0
pop(l, index) == SubSeq(l, 1, index) \o SubSeq(l, index + 2, Len(l))

\* --------------------------------------------------------------- state
VARIABLES
  \* FeedbackCollector
  feedback_data,    \* FeedbackData: text_feedback, images, has_text, has_images
  result_queue,     \* queue.Queue of [res, stale]; stale is history
  is_cancelled,
  is_submitted,
  wait_result,      \* what the last wait_for_result returned, [res, stale],
                    \* and whether there was a call at all (history)
  touched,          \* history: a mutator or publish ran since the last reset
  discarded,        \* history: unconsumed results the last reset found queued
  first_published,  \* history: the first result published since the last reset
  \* ModernFeedbackDialog
  timeout_seconds,  \* the dialog's and the collector's timeout
  window,           \* "none" (no instance yet), "live", "null" (destroyed)
  mapped,           \* the window is deiconified (on screen)
  is_hidden,
  result,
  timeout_job,      \* self.timeout_job holds an after-id
  timer_pending,    \* Tk still holds the scheduled _on_timeout call
  text_area,        \* content of the text widget
  gallery,          \* ImageGallery.images
  box,              \* the open modal box: "none", "cancel", "clear",
                    \* "chooser", "warning" (paste failed) or
                    \* "no_feedback" (the warning of an empty submit)
  \* server and handler thread
  pc,               \* position of the handler thread
  feedback_dialog,  \* the global _feedback_dialog is not None
  server,           \* "running", "interrupted", "exited"
  tk_roots,         \* number of live Tk root windows
  returned,         \* what the last show_dialog returned
  \* history of the current cycle
  cycle,            \* number of show_dialog cycles started
  first_terminal,   \* first terminal action of the call and the result it set
  result_cycle,     \* cycle in which self.result was last assigned (0: None)
  cycle_text,       \* the text the edits of this cycle alone produce
  cycle_gallery,    \* the images the edits of this cycle alone produce
  \* caller of validate_feedback
  validation,       \* what the last validate_feedback returned, if called
  \* caller of the FeedbackData methods
  last_call,        \* history: the last call on the session and its argument
  \* the tool call
  caller,           \* who called show_dialog: "collect_feedback", "client"
                    \* or "none" (no call yet)
  outcome,          \* how the last collect_feedback ended: the list it
                    \* returned or the exception it raised
  pending,          \* tool requests received that the handler thread has
                    \* not started on yet
  waiting,          \* a caller's thread is inside result_queue.get()
  handed,           \* the dict to_dict() handed to a caller: its value when
                    \* built (history), its value now, and whether its
                    \* 'images' is the list object the session holds
  getters           \* threads inside _get_feedback_dialog(): where each is
                    \* and what it returned, the instance the global
                    \* holds, the instances made and those destroyed

collector_vars == <<feedback_data, result_queue, is_cancelled, is_submitted,
                    wait_result, touched, discarded, first_published>>
dialog_vars == <<window, mapped, is_hidden, result, timeout_job, timer_pending,
                 text_area, gallery, box>>
server_vars == <<pc, feedback_dialog, server, tk_roots, returned>>
history_vars == <<cycle, first_terminal, result_cycle, cycle_text, cycle_gallery>>
call_vars == <<caller, outcome, pending, waiting, handed, getters>>
vars == <<collector_vars, dialog_vars, server_vars, history_vars, timeout_seconds,
          validation, last_call, call_vars>>

\* ------------------------------------------------------ Python values
\* A result dict.  The keys a dict does not carry hold their empty value.
Dict(success, message, text, images, sources, has_text, has_images, count) ==
  [success |-> success, message |-> message, text_feedback |-> text,
   images |-> images, image_sources |-> sources, has_text |-> has_text,
   has_images |-> has_images, image_count |-> count]

\* {'success': False, 'message': message}
Failure(message) == Dict(FALSE, message, NoneText, <<>>, <<>>, FALSE, FALSE, 0)

\* Python's None where a result dict is expected: no dict carries its message.
None == Failure("None")

\* [f(x) for x in l]
RECURSIVE data_of(_)
data_of(l) == IF l = <<>> THEN <<>> ELSE <<Head(l).data>> \o data_of(Tail(l))

RECURSIVE sources_of(_)
sources_of(l) == IF l = <<>> THEN <<>> ELSE <<Head(l).source>> \o sources_of(Tail(l))

\* [x for x in l if x]
RECURSIVE truthy(_)
truthy(l) == IF l = <<>> THEN <<>>
             ELSE (IF Head(l) = "" THEN <<>> ELSE <<Head(l)>>) \o truthy(Tail(l))

\* get_text('user_text_feedback', text): the label with the text put in
user_text_feedback(text) == <<"user_text_feedback">> \o text

\* The parts of the list collect_feedback returns.
TextContent(text) == [type |-> "text", text |-> text, data |-> ""]
MCPImage(data) == [type |-> "image", text |-> <<>>, data |-> data]

\* for image_data in result['images']: if image_data: append(MCPImage(...))
RECURSIVE image_parts(_)
image_parts(images) ==
  IF images = <<>> THEN <<>>
  ELSE (IF Head(images) = "" THEN <<>> ELSE <<MCPImage(Head(images))>>)
         \o image_parts(Tail(images))

\* collect_feedback appending the images before the text
feedback_items_images_first(r) ==
  (IF r.has_images THEN image_parts(r.images) ELSE <<>>)
    \o (IF r.has_text THEN <<TextContent(user_text_feedback(r.text_feedback))>> ELSE <<>>)

\* The list collect_feedback builds from a result dict with success set.
feedback_items(r) ==
  (IF r.has_text THEN <<TextContent(user_text_feedback(r.text_feedback))>> ELSE <<>>)
    \o (IF r.has_images THEN image_parts(r.images) ELSE <<>>)

\* How a collect_feedback call ends: `return feedback_items`, or
\* raise Exception(get_text('feedback_collection_failed', error_msg)).
NoOutcome == [kind |-> "none", items |-> <<>>, message |-> <<>>]
Returned(items) == [kind |-> "returned", items |-> items, message |-> <<>>]
Raised(error_msg) ==
  [kind |-> "raised", items |-> <<>>,
   message |-> <<"feedback_collection_failed", error_msg>>]

\* ------------------------------------------------ _get_feedback_dialog
\* The threads that may call collect_feedback at the same time.
Threads == 1..MaxThreads

\* No thread is inside _get_feedback_dialog, the global _feedback_dialog is
\* None (0) and no ModernFeedbackDialog has been made.
NoGetters ==
  [at |-> [t \in Threads |-> "out"], got |-> [t \in Threads |-> 0],
   global |-> 0, made |-> 0, destroyed |-> {}]

\* ------------------------------------------------------- ImageHandler
\* The image dict ImageHandler builds, cut to the keys read: the payload
\* (by its encoding), the source, and the payload's length and pixel size.
Loaded(data, source, width, height, file_size) ==
  [data |-> data, source |-> source, width |-> width, height |-> height,
   file_size |-> file_size]

\* The encoded bytes of an image in the format PIL names.
encoded(format) == IF format = "PNG" THEN "png" ELSE "jpg"

\* ImageHandler.load_from_file(file_path): every raise inside ends in the
\* except that returns None.
load_from_file(f) ==
  IF ~f.exists THEN NoImage
  ELSE IF f.file_size > MAX_FILE_SIZE THEN NoImage
  ELSE IF ~f.supported THEN NoImage
  ELSE IF f.format = "none" THEN NoImage
  ELSE IF f.width > MAX_IMAGE_SIZE \/ f.height > MAX_IMAGE_SIZE THEN NoImage
  ELSE Loaded(encoded(f.format), "file", f.width, f.height, f.file_size)

\* ImageHandler.load_from_clipboard(): None without an image; a list of
\* file names has no .size and a failing platform call raises, both caught.
load_from_clipboard(c) ==
  IF c.kind # "image" THEN NoImage
  ELSE IF c.width > MAX_IMAGE_SIZE \/ c.height > MAX_IMAGE_SIZE THEN NoImage
  ELSE Loaded("png", "clipboard", c.width, c.height, c.png_bytes)

\* ImageHandler.select_files_dialog() from the chooser's return on: the
\* files that load, in the order chosen.
RECURSIVE select_files_dialog(_)
select_files_dialog(file_paths) ==
  IF file_paths = <<>> THEN <<>>
  ELSE (IF load_from_file(Head(file_paths)) = NoImage THEN <<>>
        ELSE <<load_from_file(Head(file_paths))>>)
         \o select_files_dialog(Tail(file_paths))

\* ------------------------------------------------------- FeedbackData
NewFeedbackData ==
  [text_feedback |-> NoneText, images |-> <<>>, has_text |-> FALSE, has_images |-> FALSE]

\* add_text_feedback() storing the text as passed
add_text_untrimmed(d, text) ==
  IF text # NoneText /\ text # <<>> /\ strip(text) # <<>>
  THEN [d EXCEPT !.text_feedback = text, !.has_text = TRUE]
  ELSE d

add_text_feedback(d, text) ==
  IF text # NoneText /\ text # <<>> /\ strip(text) # <<>>
  THEN [d EXCEPT !.text_feedback = strip(text), !.has_text = TRUE]
  ELSE d

add_image(d, image_data) ==
  IF image_data # NoImage
  THEN [d EXCEPT !.images = Append(@, image_data), !.has_images = TRUE]
  ELSE d

\* remove_image() without the recomputing of has_images
remove_image_keep_flag(d, index) ==
  IF 0 <= index /\ index < Len(d.images)
  THEN [d EXCEPT !.images = pop(@, index)]
  ELSE d

remove_image(d, index) ==
  IF 0 <= index /\ index < Len(d.images)
  THEN [d EXCEPT !.images = pop(@, index),
                 !.has_images = Len(pop(d.images, index)) > 0]
  ELSE d

clear_images(d) == [d EXCEPT !.images = <<>>, !.has_images = FALSE]

is_valid(d) == d.has_text \/ d.has_images

get_image_data_list(d) == truthy(data_of(d.images))

to_dict(d) ==
  Dict(TRUE, "", d.text_feedback, get_image_data_list(d), sources_of(d.images),
       d.has_text, d.has_images, Len(d.images))

\* to_dict() handing out the session's own list as 'images'
session_list == TRUE

\* [img.get('data') for img in self.images if img.get('data')]: the
\* comprehension builds a new list object, which is not the session's.
comprehension_list == FALSE

\* The dict to_dict() hands to its caller, as a Python object: `now` is what
\* the caller reads from it, `built` what it held when built (history),
\* `shared` whether its 'images' is the very list the session holds.
NotHanded == [given |-> FALSE, built |-> None, now |-> None, shared |-> FALSE]
Handed(d) == [given |-> TRUE, built |-> to_dict(d), now |-> to_dict(d),
              shared |-> comprehension_list]

\* What an in-place change of the session's list (append, pop, clear) to
\* images does to the dict handed out: nothing, unless it holds that list.
after_list_change(h, images) ==
  IF h.given /\ h.shared THEN [h EXCEPT !.now.images = truthy(data_of(images))] ELSE h

\* What reset() does to it: self.feedback_data = FeedbackData() binds a new
\* object with a new list; the old list is changed by nobody any more.
after_new_session(h) == [h EXCEPT !.shared = FALSE]

\* The lowest index (from 0) of an image without payload, Len(l) if none.
RECURSIVE first_invalid(_)
first_invalid(l) ==
  IF l = <<>> THEN 0
  ELSE IF Head(l).data = "" THEN 0 ELSE 1 + first_invalid(Tail(l))

Violation(kind, at) == [ok |-> FALSE, kind |-> kind, at |-> at]
Valid == [ok |-> TRUE, kind |-> "ok", at |-> 0]

\* validate_feedback() with the image checks before the text checks
validate_images_first(d) ==
  IF ~is_valid(d) THEN Violation("no_feedback", 0)
  ELSE IF d.has_images /\ Len(d.images) > MAX_IMAGE_COUNT
  THEN Violation("too_many_images", 0)
  ELSE IF d.has_images /\ first_invalid(d.images) < Len(d.images)
  THEN Violation("invalid_image", first_invalid(d.images) + 1)
  ELSE IF d.has_text /\ Len(d.text_feedback) > MAX_TEXT_LENGTH
  THEN Violation("text_too_long", 0)
  ELSE Valid

\* validate_feedback() refusing a text of exactly MAX_TEXT_LENGTH characters
validate_feedback_exclusive(d) ==
  IF ~is_valid(d) THEN Violation("no_feedback", 0)
  ELSE IF d.has_text /\ Len(d.text_feedback) >= MAX_TEXT_LENGTH
  THEN Violation("text_too_long", 0)
  ELSE IF d.has_images /\ first_invalid(d.images) < Len(d.images)
  THEN Violation("invalid_image", first_invalid(d.images) + 1)
  ELSE Valid

\* FeedbackCollector.validate_feedback() of a session d; `at` is the number
\* the message gives the first invalid image (counted from 1).
validate_feedback(d) ==
  IF ~is_valid(d) THEN Violation("no_feedback", 0)
  ELSE IF d.has_text /\ (d.text_feedback = NoneText \/ Len(strip(d.text_feedback)) < 1)
  THEN Violation("text_empty", 0)
  ELSE IF d.has_text /\ Len(d.text_feedback) > MAX_TEXT_LENGTH
  THEN Violation("text_too_long", 0)
  ELSE IF d.has_images /\ Len(d.images) > MAX_IMAGE_COUNT
  THEN Violation("too_many_images", 0)
  ELSE IF d.has_images /\ first_invalid(d.images) < Len(d.images)
  THEN Violation("invalid_image", first_invalid(d.images) + 1)
  ELSE Valid

\* `session` is history: the session the call found.
NotValidated == [called |-> FALSE, ok |-> FALSE, kind |-> "none", at |-> 0,
                 session |-> NewFeedbackData]

\* history: a call of a FeedbackData method with its arguments and the
\* session it found
Call(op, text, image_data, index, before) ==
  [op |-> op, text |-> text, image_data |-> image_data, index |-> index,
   before |-> before]
NoCall == Call("none", NoneText, NoImage, 0, NewFeedbackData)

\* What a caller may pass to add_text_feedback, add_image and remove_image.
TextArgs == Texts \cup {NoneText}
ImageArgs == ClipboardImages \cup FileImages \cup {EmptyImage, NoImage}
IndexArgs == -2 .. MaxSession + 1

\* -------------------------------------------------- FeedbackCollector
\* history: every queued result was published before the reset now running
RECURSIVE MarkStale(_)
MarkStale(q) == IF q = <<>> THEN <<>>
                ELSE <<[Head(q) EXCEPT !.stale = TRUE]>> \o MarkStale(Tail(q))

\* history: what wait_for_result returned, and the value before any call
Waited(r, stale) == [res |-> r, stale |-> stale, called |-> TRUE]
NeverWaited == [res |-> None, stale |-> FALSE, called |-> FALSE]

NoPublish == [published |-> FALSE, res |-> None]
Published(r) == [published |-> TRUE, res |-> r]

\* reset() without its loop over the queue
drain_queue_skip(q) == q

\* while not self.result_queue.empty(): self.result_queue.get_nowait()
drain_queue(q) == <<>>

\* FeedbackCollector.reset()
reset ==
  /\ feedback_data' = NewFeedbackData
  /\ is_cancelled' = FALSE
  /\ is_submitted' = FALSE
  /\ result_queue' = drain_queue(MarkStale(result_queue))
  /\ touched' = FALSE
  /\ discarded' = Len(result_queue)
  /\ first_published' = NoPublish
  /\ UNCHANGED wait_result

\* put() on a queue.Queue(maxsize=1): it blocks while the queue is full
put_single_slot(r) ==
  /\ Len(result_queue) < 1
  /\ result_queue' = Append(result_queue, [res |-> r, stale |-> FALSE])
  /\ first_published' = IF first_published.published THEN first_published
                        ELSE Published(r)

\* queue.Queue.put(item), with the history of the first publish of the cycle
put(r) ==
  /\ result_queue' = Append(result_queue, [res |-> r, stale |-> FALSE])
  /\ first_published' = IF first_published.published THEN first_published
                        ELSE Published(r)

CollectorReset ==
  /\ reset
  /\ UNCHANGED <<dialog_vars, server_vars, history_vars, timeout_seconds, validation, last_call, call_vars>>

CollectorAddText(text) ==
  /\ feedback_data' = add_text_feedback(feedback_data, text)
  /\ touched' = TRUE
  /\ UNCHANGED <<result_queue, is_cancelled, is_submitted, wait_result, discarded, first_published>>
  /\ UNCHANGED <<dialog_vars, server_vars, history_vars, timeout_seconds, validation, last_call, call_vars>>

CollectorAddImage(image_data) ==
  /\ Len(feedback_data.images) < MaxHeld
  /\ feedback_data' = add_image(feedback_data, image_data)
  /\ touched' = TRUE
  /\ UNCHANGED <<result_queue, is_cancelled, is_submitted, wait_result, discarded, first_published>>
  /\ UNCHANGED <<dialog_vars, server_vars, history_vars, timeout_seconds, validation, last_call, call_vars>>

CollectorRemoveImage(index) ==
  /\ feedback_data' = remove_image(feedback_data, index)
  /\ touched' = TRUE
  /\ UNCHANGED <<result_queue, is_cancelled, is_submitted, wait_result, discarded, first_published>>
  /\ UNCHANGED <<dialog_vars, server_vars, history_vars, timeout_seconds, validation, last_call, call_vars>>

CollectorClearImages ==
  /\ feedback_data' = clear_images(feedback_data)
  /\ touched' = TRUE
  /\ UNCHANGED <<result_queue, is_cancelled, is_submitted, wait_result, discarded, first_published>>
  /\ UNCHANGED <<dialog_vars, server_vars, history_vars, timeout_seconds, validation, last_call, call_vars>>

\* FeedbackCollector.submit_feedback()
submit_feedback ==
  /\ IF ~is_valid(feedback_data)
     THEN UNCHANGED <<result_queue, is_submitted, first_published>>
     ELSE /\ Len(result_queue) < MaxQueue
          /\ is_submitted' = TRUE
          /\ put(to_dict(feedback_data))
  /\ touched' = TRUE
  /\ UNCHANGED <<feedback_data, is_cancelled, wait_result, discarded>>
  /\ UNCHANGED <<dialog_vars, server_vars, history_vars, timeout_seconds, validation, last_call, call_vars>>

\* FeedbackCollector.cancel_feedback()
cancel_feedback ==
  /\ Len(result_queue) < MaxQueue
  /\ is_cancelled' = TRUE
  /\ put(Failure("operation_cancelled"))
  /\ touched' = TRUE
  /\ UNCHANGED <<feedback_data, is_submitted, wait_result, discarded>>
  /\ UNCHANGED <<dialog_vars, server_vars, history_vars, timeout_seconds, validation, last_call, call_vars>>

\* queue.Queue.get(timeout=t) as wait_for_result sees it: the item taken, or
\* "Empty" (the wait ran out), or "ValueError" (a negative timeout is refused
\* before the queue is looked at).  A timeout of 0 does not wait.
queue_get(q, t) ==
  IF t < 0 THEN "ValueError"
  ELSE IF q # <<>> THEN "item"
  ELSE "Empty"

\* wait_for_result() publishing a cancel when its wait runs out
wait_for_result_publishes ==
  /\ LET got == queue_get(result_queue, timeout_seconds) IN
     /\ result_queue' = IF got = "item" THEN Tail(result_queue)
                        ELSE IF got = "Empty"
                        THEN <<[res |-> Failure("operation_cancelled"), stale |-> FALSE]>>
                        ELSE result_queue
     /\ is_cancelled' = IF got = "Empty" THEN TRUE ELSE is_cancelled
     /\ wait_result' =
          IF got = "item" THEN Waited(Head(result_queue).res, Head(result_queue).stale)
          ELSE IF got = "Empty" THEN Waited(None, FALSE)
          ELSE Waited(Failure("wait_failed"), FALSE)
  /\ UNCHANGED <<feedback_data, is_submitted, touched, discarded, first_published>>
  /\ UNCHANGED <<dialog_vars, server_vars, history_vars, timeout_seconds, validation, last_call, call_vars>>

\* The return of wait_for_result(): what result_queue.get(timeout=...) ends
\* with, once an item is there or the timeout has run out.
wait_return ==
  /\ LET got == queue_get(result_queue, timeout_seconds) IN
     /\ result_queue' = IF got = "item" THEN Tail(result_queue) ELSE result_queue
     /\ wait_result' =
          IF got = "item" THEN Waited(Head(result_queue).res, Head(result_queue).stale)
          ELSE IF got = "Empty" THEN Waited(None, FALSE)
          ELSE Waited(Failure("wait_failed"), FALSE)
  /\ UNCHANGED <<feedback_data, is_cancelled, is_submitted, touched, discarded, first_published>>
  /\ UNCHANGED <<dialog_vars, server_vars, history_vars, timeout_seconds, validation, last_call>>
  /\ UNCHANGED <<caller, outcome, pending, handed, getters>>

\* FeedbackCollector.wait_for_result(), from call to return
wait_for_result ==
  /\ ~waiting
  /\ wait_return
  /\ UNCHANGED waiting

\* A caller's thread calls wait_for_result() and is inside result_queue.get().
wait_begin ==
  /\ ~waiting
  /\ waiting' = TRUE
  /\ UNCHANGED <<collector_vars, dialog_vars, server_vars, history_vars,
                 timeout_seconds, validation, last_call, caller, outcome, pending, handed, getters>>

\* The get() of the waiting thread ends and wait_for_result() returns.
wait_end ==
  /\ waiting
  /\ waiting' = FALSE
  /\ wait_return

\* The collector's interface with a second thread for the waiting caller.
WaitingNext ==
  \/ CollectorReset
  \/ \E text \in SessionTexts : CollectorAddText(text)
  \/ \E image_data \in SessionImages : CollectorAddImage(image_data)
  \/ CollectorClearImages
  \/ submit_feedback
  \/ cancel_feedback
  \/ wait_begin
  \/ wait_end

\* Any use of the collector's interface, in any order.
CollectorNext ==
  \/ CollectorReset
  \/ \E text \in SessionTexts : CollectorAddText(text)
  \/ \E image_data \in SessionImages : CollectorAddImage(image_data)
  \/ \E index \in -1..MaxHeld : CollectorRemoveImage(index)
  \/ CollectorClearImages
  \/ submit_feedback
  \/ cancel_feedback
  \/ wait_for_result

\* ------------------------------------------------ ModernFeedbackDialog
NoTerminal == [kind |-> "none", res |-> None]

\* The first terminal action of a call, kept once set.
Terminal(kind, r) ==
  IF first_terminal.kind = "none" THEN [kind |-> kind, res |-> r] ELSE first_terminal

\* MacOSTextArea.get_text()
get_text(widget_text) == strip(widget_text)

\* _reset_dialog_state without its set_text("")
reset_text_keep(widget_text) == widget_text

\* self.text_area.set_text("") in _reset_dialog_state
reset_text(widget_text) == <<>>

\* self.image_gallery.clear_images() in _reset_dialog_state
reset_gallery(images) == <<>>

\* Positions of the handler thread: the function it is in and the place in it.
At(fn, at) == [fn |-> fn, at |-> at]
Idle == At("none", "idle")
Aborted == At("none", "aborted")

\* The handler's position is inside show_dialog's event loop.
InLoop == pc = At("show_dialog", "loop")

\* ModernFeedbackDialog._hide_window()
hide_window ==
  IF window = "live" /\ ~is_hidden
  THEN is_hidden' = TRUE /\ mapped' = FALSE
  ELSE UNCHANGED <<is_hidden, mapped>>

\* self.result = r, with its history
set_result(kind, r) ==
  /\ result' = r
  /\ result_cycle' = cycle
  /\ first_terminal' = Terminal(kind, r)

\* The result dict _on_submit builds.
submit_result(text_feedback, images) ==
  Dict(TRUE, "submit_success", text_feedback, data_of(images), <<>>,
       text_feedback # <<>>, images # <<>>, 0)

\* The user replaces the content of the text widget.
TypeText(text) ==
  /\ InLoop /\ box = "none" /\ mapped
  /\ text_area' = text
  /\ cycle_text' = text
  /\ UNCHANGED <<window, mapped, is_hidden, result, timeout_job, timer_pending, gallery, box>>
  /\ UNCHANGED <<cycle, first_terminal, result_cycle, cycle_gallery>>
  /\ UNCHANGED <<collector_vars, server_vars, timeout_seconds, validation, last_call, call_vars>>

\* The lists of image dicts the file chooser can hand back: none (the user
\* closed it) or as many loaded files as the gallery bound leaves room for.
chosen_files(room) == UNION {[1..n -> FileImages] : n \in 0..room}

\* ModernFeedbackDialog._select_images() up to the file chooser: the modal
\* filedialog.askopenfilenames opens and runs its own event loop.
on_select_images ==
  /\ InLoop /\ box = "none" /\ mapped
  /\ box' = "chooser"
  /\ UNCHANGED <<window, mapped, is_hidden, result, timeout_job, timer_pending, text_area, gallery>>
  /\ UNCHANGED <<cycle, first_terminal, result_cycle, cycle_text, cycle_gallery>>
  /\ UNCHANGED <<collector_vars, server_vars, timeout_seconds, validation, last_call, call_vars>>

\* ModernFeedbackDialog._select_images() from the chooser's return on:
\* ImageGallery.add_image for every image loaded.
on_select_images_done(images) ==
  /\ InLoop /\ box = "chooser"
  /\ box' = "none"
  /\ gallery' = gallery \o images
  /\ cycle_gallery' = cycle_gallery \o images
  /\ UNCHANGED <<window, mapped, is_hidden, result, timeout_job, timer_pending, text_area>>
  /\ UNCHANGED <<cycle, first_terminal, result_cycle, cycle_text>>
  /\ UNCHANGED <<collector_vars, server_vars, timeout_seconds, validation, last_call, call_vars>>

\* _paste_image() ending the cycle with a failure when nothing was acquired
on_paste_image_fatal(image_data) ==
  /\ InLoop /\ box = "none" /\ mapped
  /\ IF image_data # NoImage
     THEN /\ Len(gallery) < MaxImages
          /\ gallery' = Append(gallery, image_data)
          /\ cycle_gallery' = Append(cycle_gallery, image_data)
          /\ UNCHANGED <<box, result, result_cycle, first_terminal, is_hidden, mapped>>
     ELSE /\ set_result("error", Failure("paste_failed"))
          /\ hide_window
          /\ UNCHANGED <<gallery, cycle_gallery, box>>
  /\ UNCHANGED <<window, timeout_job, timer_pending, text_area>>
  /\ UNCHANGED <<cycle, cycle_text>>
  /\ UNCHANGED <<collector_vars, server_vars, timeout_seconds, validation, last_call, call_vars>>

\* ModernFeedbackDialog._paste_image(): the clipboard holds an image, which
\* goes to the gallery, or it does not and the modal showwarning opens.
on_paste_image(image_data) ==
  /\ InLoop /\ box = "none" /\ mapped
  /\ IF image_data # NoImage
     THEN /\ Len(gallery) < MaxImages
          /\ gallery' = Append(gallery, image_data)
          /\ cycle_gallery' = Append(cycle_gallery, image_data)
          /\ UNCHANGED box
     ELSE /\ box' = "warning"
          /\ UNCHANGED <<gallery, cycle_gallery>>
  /\ UNCHANGED <<window, mapped, is_hidden, result, timeout_job, timer_pending, text_area>>
  /\ UNCHANGED <<cycle, first_terminal, result_cycle, cycle_text>>
  /\ UNCHANGED <<collector_vars, server_vars, timeout_seconds, validation, last_call, call_vars>>

\* The user dismisses a messagebox.showwarning; the callback that opened it
\* returns.
warning_ok ==
  /\ InLoop /\ box \in {"warning", "no_feedback"}
  /\ box' = "none"
  /\ UNCHANGED <<window, mapped, is_hidden, result, timeout_job, timer_pending, text_area, gallery>>
  /\ UNCHANGED <<cycle, first_terminal, result_cycle, cycle_text, cycle_gallery>>
  /\ UNCHANGED <<collector_vars, server_vars, timeout_seconds, validation, last_call, call_vars>>

\* ImageGallery.remove_image(index), from a preview card's remove control
RemoveGalleryImage(index) ==
  /\ InLoop /\ box = "none" /\ mapped
  /\ IF 0 <= index /\ index < Len(gallery)
     THEN gallery' = pop(gallery, index)
     ELSE UNCHANGED gallery
  /\ cycle_gallery' = IF 0 <= index /\ index < Len(cycle_gallery)
                      THEN pop(cycle_gallery, index) ELSE cycle_gallery
  /\ UNCHANGED <<window, mapped, is_hidden, result, timeout_job, timer_pending, text_area, box>>
  /\ UNCHANGED <<cycle, first_terminal, result_cycle, cycle_text>>
  /\ UNCHANGED <<collector_vars, server_vars, timeout_seconds, validation, last_call, call_vars>>

\* ModernFeedbackDialog._clear_images() up to the confirmation: with images
\* the modal askyesno opens; without, nothing happens.
on_clear_images ==
  /\ InLoop /\ box = "none" /\ mapped
  /\ box' = IF gallery # <<>> THEN "clear" ELSE box
  /\ UNCHANGED <<window, mapped, is_hidden, result, timeout_job, timer_pending, text_area, gallery>>
  /\ UNCHANGED <<cycle, first_terminal, result_cycle, cycle_text, cycle_gallery>>
  /\ UNCHANGED <<collector_vars, server_vars, timeout_seconds, validation, last_call, call_vars>>

\* ModernFeedbackDialog._clear_images() from the answer of the confirmation on
on_clear_images_answer(yes) ==
  /\ InLoop /\ box = "clear"
  /\ box' = "none"
  /\ gallery' = IF yes THEN <<>> ELSE gallery
  /\ cycle_gallery' = IF yes THEN <<>> ELSE cycle_gallery
  /\ UNCHANGED <<window, mapped, is_hidden, result, timeout_job, timer_pending, text_area>>
  /\ UNCHANGED <<cycle, first_terminal, result_cycle, cycle_text>>
  /\ UNCHANGED <<collector_vars, server_vars, timeout_seconds, validation, last_call, call_vars>>

\* _on_submit() without its test for content
on_submit_unchecked ==
  /\ InLoop /\ box = "none"
  /\ set_result("submit", submit_result(strip(get_text(text_area)), gallery))
  /\ hide_window
  /\ UNCHANGED <<window, timeout_job, timer_pending, text_area, gallery, box>>
  /\ UNCHANGED <<cycle, cycle_text, cycle_gallery>>
  /\ UNCHANGED <<collector_vars, server_vars, timeout_seconds, validation, last_call, call_vars>>

\* ModernFeedbackDialog._on_submit(): an event delivered by window.update();
\* without content the modal showwarning opens and nothing is submitted.
on_submit ==
  /\ InLoop /\ box = "none"
  /\ LET text_feedback == strip(get_text(text_area))
         images == gallery
     IN IF text_feedback = <<>> /\ images = <<>>
        THEN /\ box' = "no_feedback"
             /\ UNCHANGED <<result, result_cycle, first_terminal, is_hidden, mapped>>
        ELSE /\ set_result("submit", submit_result(text_feedback, images))
             /\ hide_window
             /\ UNCHANGED box
  /\ UNCHANGED <<window, timeout_job, timer_pending, text_area, gallery>>
  /\ UNCHANGED <<cycle, cycle_text, cycle_gallery>>
  /\ UNCHANGED <<collector_vars, server_vars, timeout_seconds, validation, last_call, call_vars>>

\* _on_cancel() without its confirmation
on_cancel_unconfirmed ==
  /\ InLoop /\ box = "none"
  /\ set_result("cancel", Failure("operation_cancelled"))
  /\ hide_window
  /\ UNCHANGED <<window, timeout_job, timer_pending, text_area, gallery, box>>
  /\ UNCHANGED <<cycle, cycle_text, cycle_gallery>>
  /\ UNCHANGED <<collector_vars, server_vars, timeout_seconds, validation, last_call, call_vars>>

\* ModernFeedbackDialog._on_cancel() up to the confirmation: with content the
\* modal askyesno opens and runs its own event loop; without, cancel proceeds.
on_cancel ==
  /\ InLoop /\ box = "none"
  /\ LET has_text == strip(get_text(text_area)) # <<>>
         has_images == gallery # <<>>
     IN IF has_text \/ has_images
        THEN /\ box' = "cancel"
             /\ UNCHANGED <<result, result_cycle, first_terminal, is_hidden, mapped>>
        ELSE /\ set_result("cancel", Failure("operation_cancelled"))
             /\ hide_window
             /\ UNCHANGED box
  /\ UNCHANGED <<window, timeout_job, timer_pending, text_area, gallery>>
  /\ UNCHANGED <<cycle, cycle_text, cycle_gallery>>
  /\ UNCHANGED <<collector_vars, server_vars, timeout_seconds, validation, last_call, call_vars>>

\* ModernFeedbackDialog._on_cancel() from the answer of the confirmation on
on_cancel_answer(yes) ==
  /\ InLoop /\ box = "cancel"
  /\ box' = "none"
  /\ IF yes
     THEN /\ set_result("cancel", Failure("operation_cancelled"))
          /\ hide_window
     ELSE UNCHANGED <<result, result_cycle, first_terminal, is_hidden, mapped>>
  /\ UNCHANGED <<window, timeout_job, timer_pending, text_area, gallery>>
  /\ UNCHANGED <<cycle, cycle_text, cycle_gallery>>
  /\ UNCHANGED <<collector_vars, server_vars, timeout_seconds, validation, last_call, call_vars>>

\* ModernFeedbackDialog._on_timeout(): the after-callback, run by whichever
\* event loop is running (window.update(), or the modal confirmation's)
on_timeout ==
  /\ InLoop /\ timer_pending
  /\ timer_pending' = FALSE
  /\ set_result("timeout", Failure("timeout_error"))
  /\ hide_window
  /\ UNCHANGED <<window, timeout_job, text_area, gallery, box>>
  /\ UNCHANGED <<cycle, cycle_text, cycle_gallery>>
  /\ UNCHANGED <<collector_vars, server_vars, timeout_seconds, validation, last_call, call_vars>>

\* Where show_dialog returns to: the statement after the call in
\* collect_feedback, or the client that called it.
ReturnTo == IF caller = "collect_feedback" THEN At("collect_feedback", "result") ELSE Idle

\* show_dialog with no except clause: the exception leaves the call and no
\* value is returned
show_dialog_reraise ==
  /\ pc' = Idle
  /\ UNCHANGED returned

\* except Exception as e: return {'success': False, 'message': gui_error}
show_dialog_except ==
  /\ pc' = ReturnTo
  /\ returned' = Failure("gui_error")

\* --------------------------------------------- validate_gui_environment
\* Where a passed or failed validation leaves the caller: collect_feedback
\* goes on to the dialog or raises; show_dialog goes on to its reset or
\* returns the gui_error dict.
validation_passed(fn) ==
  /\ pc' = IF fn = "collect_feedback" THEN At(fn, "get_dialog") ELSE At(fn, "reset")
  /\ UNCHANGED <<returned, outcome>>

\* A failed validation treated as a passed one
validation_ignored(fn, message) == validation_passed(fn)

\* The validation fails with message: collect_feedback raises Exception(message),
\* which its own except clause wraps; show_dialog returns the gui_error dict
\* to its caller.
validation_failed(fn, message) ==
  IF fn = "show_dialog"
  THEN /\ show_dialog_except
       /\ UNCHANGED outcome
  ELSE /\ pc' = Idle
       /\ outcome' = Raised(message)
       /\ UNCHANGED returned

\* check_gui_available(): test_root = tk.Tk(), which the host may refuse
check_gui_create(fn, ok) ==
  /\ pc = At(fn, "validate")
  /\ IF ok
     THEN /\ tk_roots' = tk_roots + 1
          /\ pc' = At(fn, "test_root")
          /\ UNCHANGED <<returned, outcome>>
     ELSE /\ validation_failed(fn, "gui_unavailable")
          /\ UNCHANGED tk_roots
  /\ UNCHANGED <<feedback_dialog, server, caller, pending, waiting, handed, getters>>
  /\ UNCHANGED <<collector_vars, dialog_vars, history_vars, timeout_seconds, validation, last_call>>

\* check_gui_available(): test_root.withdraw(); test_root.destroy()
check_gui_destroy(fn) ==
  /\ pc = At(fn, "test_root")
  /\ tk_roots' = tk_roots - 1
  /\ pc' = At(fn, "screen")
  /\ UNCHANGED <<feedback_dialog, server, returned>>
  /\ UNCHANGED <<collector_vars, dialog_vars, history_vars, timeout_seconds, validation, last_call, call_vars>>

\* get_screen_size(): root = tk.Tk(); a failure yields the default 1920x1080
get_screen_create(fn, ok) ==
  /\ pc = At(fn, "screen")
  /\ IF ok
     THEN /\ tk_roots' = tk_roots + 1
          /\ pc' = At(fn, "screen_root")
          /\ UNCHANGED <<returned, outcome>>
     ELSE /\ validation_passed(fn)
          /\ UNCHANGED tk_roots
  /\ UNCHANGED <<feedback_dialog, server, caller, pending, waiting, handed, getters>>
  /\ UNCHANGED <<collector_vars, dialog_vars, history_vars, timeout_seconds, validation, last_call>>

\* get_screen_size(): root.destroy(), then the 800x600 check of the size read
get_screen_destroy(fn, big_enough) ==
  /\ pc = At(fn, "screen_root")
  /\ tk_roots' = tk_roots - 1
  /\ IF big_enough THEN validation_passed(fn)
     ELSE validation_failed(fn, "resolution_too_low")
  /\ UNCHANGED <<feedback_dialog, server, caller, pending, waiting, handed, getters>>
  /\ UNCHANGED <<collector_vars, dialog_vars, history_vars, timeout_seconds, validation, last_call>>

\* ------------------------------------------------------------- server
\* enter_collect_feedback() with no regard to what the thread is doing
enter_while_busy ==
  /\ server = "running"
  /\ cycle < MaxCycles
  /\ pc' = At("collect_feedback", "validate")
  /\ first_terminal' = NoTerminal
  /\ UNCHANGED <<cycle, result_cycle, cycle_text, cycle_gallery>>
  /\ UNCHANGED <<feedback_dialog, server, tk_roots, returned>>
  /\ UNCHANGED <<collector_vars, dialog_vars, timeout_seconds, validation, last_call>>
  /\ UNCHANGED <<caller, outcome, waiting, handed, getters>>

\* The handler thread enters collect_feedback(), which starts with the
\* validation.  The thread runs one call at a time: collect_feedback is a
\* plain function that does not return before show_dialog has.
enter_collect_feedback ==
  /\ server = "running" /\ pc = Idle
  /\ cycle < MaxCycles
  /\ pc' = At("collect_feedback", "validate")
  /\ first_terminal' = NoTerminal
  /\ UNCHANGED <<cycle, result_cycle, cycle_text, cycle_gallery>>
  /\ UNCHANGED <<feedback_dialog, server, tk_roots, returned>>
  /\ UNCHANGED <<collector_vars, dialog_vars, timeout_seconds, validation, last_call>>
  /\ UNCHANGED <<caller, outcome, waiting, handed, getters>>

\* collect_feedback() is called for a request handled as it arrives.
collect_feedback ==
  /\ pending = 0
  /\ enter_collect_feedback
  /\ UNCHANGED pending

\* A tool request for collect_feedback arrives, at any time.
tool_request ==
  /\ server = "running"
  /\ pending < MaxPending
  /\ pending' = pending + 1
  /\ UNCHANGED <<collector_vars, dialog_vars, server_vars, history_vars,
                 timeout_seconds, validation, last_call, caller, outcome, waiting, handed, getters>>

\* The handler thread takes up a waiting request: collect_feedback() is called.
handle_request ==
  /\ pending > 0
  /\ pending' = pending - 1
  /\ enter_collect_feedback

\* ModernFeedbackDialog.__init__ with _create_window_once
new_dialog ==
  /\ feedback_data' = NewFeedbackData
  /\ result_queue' = <<>>
  /\ is_cancelled' = FALSE
  /\ is_submitted' = FALSE
  /\ wait_result' = NeverWaited
  /\ touched' = FALSE
  /\ discarded' = 0
  /\ first_published' = NoPublish
  /\ window' = "live"
  /\ mapped' = FALSE
  /\ is_hidden' = FALSE
  /\ result' = None
  /\ timeout_job' = FALSE
  /\ timer_pending' = FALSE
  /\ text_area' = <<>>
  /\ gallery' = <<>>
  /\ box' = "none"
  /\ tk_roots' = tk_roots + 1

\* _get_feedback_dialog(), dialog.timeout_seconds = DIALOG_TIMEOUT, and the
\* call of dialog.show_dialog()
get_feedback_dialog ==
  /\ pc = At("collect_feedback", "get_dialog")
  /\ IF ~feedback_dialog
     THEN new_dialog
     ELSE UNCHANGED <<collector_vars, dialog_vars, tk_roots>>
  /\ feedback_dialog' = TRUE
  /\ caller' = "collect_feedback"
  /\ pc' = At("show_dialog", "validate")
  /\ UNCHANGED <<server, returned, history_vars, timeout_seconds, validation, last_call, outcome, pending, waiting, handed, getters>>

\* _reset_dialog_state().  On an instance whose window has been destroyed the
\* widgets are gone with it: text_area.set_text("") raises TclError after the
\* fields and the collector have been reset.
reset_dialog_state ==
  /\ pc = At("show_dialog", "reset")
  /\ result' = None
  /\ is_hidden' = FALSE
  /\ reset
  /\ IF window = "live"
     THEN /\ text_area' = reset_text(text_area)
          /\ gallery' = reset_gallery(gallery)
          /\ pc' = At("show_dialog", "show")
          /\ UNCHANGED returned
     ELSE /\ show_dialog_except
          /\ UNCHANGED <<text_area, gallery>>
  /\ cycle' = cycle + 1
  /\ result_cycle' = 0
  /\ cycle_text' = <<>>
  /\ cycle_gallery' = <<>>
  /\ UNCHANGED <<window, mapped, timeout_job, timer_pending, box, first_terminal>>
  /\ UNCHANGED <<feedback_dialog, server, tk_roots, timeout_seconds, validation, last_call, call_vars>>

\* _show_window()
show_window ==
  /\ pc = At("show_dialog", "show")
  /\ IF window = "live"
     THEN is_hidden' = FALSE /\ mapped' = TRUE
     ELSE UNCHANGED <<is_hidden, mapped>>
  /\ pc' = At("show_dialog", "arm")
  /\ UNCHANGED <<window, result, timeout_job, timer_pending, text_area, gallery, box>>
  /\ UNCHANGED <<feedback_dialog, server, tk_roots, returned>>
  /\ UNCHANGED <<collector_vars, history_vars, timeout_seconds, validation, last_call, call_vars>>

\* if self.timeout_seconds > 0: self.timeout_job = self.window.after(...)
arm_timeout ==
  /\ pc = At("show_dialog", "arm")
  /\ IF timeout_seconds > 0 /\ window # "live"
     THEN /\ show_dialog_except
          /\ UNCHANGED <<timeout_job, timer_pending>>
     ELSE /\ IF timeout_seconds > 0
             THEN timeout_job' = TRUE /\ timer_pending' = TRUE
             ELSE UNCHANGED <<timeout_job, timer_pending>>
          /\ pc' = At("show_dialog", "loop")
          /\ UNCHANGED returned
  /\ UNCHANGED <<window, mapped, is_hidden, result, text_area, gallery, box>>
  /\ UNCHANGED <<feedback_dialog, server, tk_roots>>
  /\ UNCHANGED <<collector_vars, history_vars, timeout_seconds, validation, last_call, call_vars>>

\* while not self.is_hidden and self.window.winfo_exists(): the test fails
\* once window.update() has returned with the window hidden; with no window
\* left, winfo_exists() raises
loop_exit ==
  /\ InLoop /\ box = "none"
  /\ is_hidden \/ window # "live"
  /\ IF is_hidden
     THEN pc' = At("show_dialog", "after_loop") /\ UNCHANGED returned
     ELSE show_dialog_except
  /\ UNCHANGED <<feedback_dialog, server, tk_roots>>
  /\ UNCHANGED <<collector_vars, dialog_vars, history_vars, timeout_seconds, validation, last_call, call_vars>>

\* window.update() raises tk.TclError inside the loop, entered with the
\* window shown: `except tk.TclError: break` leaves the loop with whatever
\* self.result holds.
update_tclerror ==
  /\ InLoop /\ box = "none"
  /\ window = "live" /\ ~is_hidden
  /\ pc' = At("show_dialog", "after_loop")
  /\ UNCHANGED <<feedback_dialog, server, tk_roots, returned>>
  /\ UNCHANGED <<collector_vars, dialog_vars, history_vars, timeout_seconds, validation, last_call, call_vars>>

\* The end of show_dialog: after_cancel of the timeout job, return self.result
show_dialog_return ==
  /\ pc = At("show_dialog", "after_loop")
  /\ IF timeout_job
     THEN timeout_job' = FALSE /\ timer_pending' = FALSE
     ELSE UNCHANGED <<timeout_job, timer_pending>>
  /\ returned' = result
  /\ pc' = ReturnTo
  /\ UNCHANGED <<window, mapped, is_hidden, result, text_area, gallery, box>>
  /\ UNCHANGED <<feedback_dialog, server, tk_roots>>
  /\ UNCHANGED <<collector_vars, history_vars, timeout_seconds, validation, last_call, call_vars>>

\* collect_feedback() from the return of show_dialog on: None and a dict
\* without success raise, caught and wrapped by the except clause of
\* collect_feedback; a dict with success becomes the list returned.
collect_feedback_return ==
  /\ pc = At("collect_feedback", "result")
  /\ outcome' = IF returned = None THEN Raised("timeout_error")
                ELSE IF ~returned.success THEN Raised(returned.message)
                ELSE Returned(feedback_items(returned))
  /\ pc' = Idle
  /\ UNCHANGED <<feedback_dialog, server, tk_roots, returned, caller, pending, waiting, handed, getters>>
  /\ UNCHANGED <<collector_vars, dialog_vars, history_vars, timeout_seconds, validation, last_call>>

\* destroy() without the cancelling of its timeout job
destroy_leak_timer ==
  IF window = "live"
  THEN /\ tk_roots' = tk_roots - 1
       /\ mapped' = FALSE
       /\ window' = "null"
       /\ UNCHANGED <<timeout_job, timer_pending>>
  ELSE UNCHANGED <<timeout_job, timer_pending, tk_roots, mapped, window>>

\* ModernFeedbackDialog.destroy()
destroy ==
  IF window = "live"
  THEN /\ timeout_job' = FALSE
       /\ timer_pending' = IF timeout_job THEN FALSE ELSE timer_pending
       /\ tk_roots' = tk_roots - 1
       /\ mapped' = FALSE
       /\ window' = "null"
  ELSE UNCHANGED <<timeout_job, timer_pending, tk_roots, mapped, window>>

\* _cleanup_dialogs()
cleanup_dialogs ==
  /\ IF feedback_dialog
     THEN destroy
     ELSE UNCHANGED <<timeout_job, timer_pending, tk_roots, mapped, window>>
  /\ feedback_dialog' = FALSE

\* KeyboardInterrupt reaches main(): whatever the handler was doing is
\* abandoned where it stood, and main() runs _cleanup_dialogs().
keyboard_interrupt ==
  /\ server = "running"
  /\ server' = "interrupted"
  /\ pc' = Aborted
  /\ box' = "none"
  /\ cleanup_dialogs
  /\ UNCHANGED <<is_hidden, result, text_area, gallery, returned>>
  /\ UNCHANGED <<collector_vars, history_vars, timeout_seconds, validation, last_call, call_vars>>

\* The interpreter exits: atexit runs _cleanup_dialogs().
atexit_cleanup ==
  /\ \/ server = "running" /\ pc = Idle
     \/ server = "interrupted"
  /\ server' = "exited"
  /\ cleanup_dialogs
  /\ UNCHANGED <<pc, box, is_hidden, result, text_area, gallery, returned>>
  /\ UNCHANGED <<collector_vars, history_vars, timeout_seconds, validation, last_call, call_vars>>

\* ------------------------------------------------------ specifications
InitWith(d) ==
  /\ feedback_data = d
  /\ result_queue = <<>>
  /\ is_cancelled = FALSE
  /\ is_submitted = FALSE
  /\ wait_result = NeverWaited
  /\ touched = FALSE
  /\ discarded = 0
  /\ first_published = NoPublish
  /\ timeout_seconds \in Timeouts
  /\ window = "none"
  /\ mapped = FALSE
  /\ is_hidden = FALSE
  /\ result = None
  /\ timeout_job = FALSE
  /\ timer_pending = FALSE
  /\ text_area = <<>>
  /\ gallery = <<>>
  /\ box = "none"
  /\ pc = Idle
  /\ feedback_dialog = FALSE
  /\ server = "running"
  /\ tk_roots = 0
  /\ returned = None
  /\ cycle = 0
  /\ first_terminal = NoTerminal
  /\ result_cycle = 0
  /\ cycle_text = <<>>
  /\ cycle_gallery = <<>>
  /\ validation = NotValidated
  /\ last_call = NoCall
  /\ caller = "none"
  /\ outcome = NoOutcome
  /\ pending = 0
  /\ waiting = FALSE
  /\ handed = NotHanded
  /\ getters = NoGetters

Init == InitWith(NewFeedbackData)

Callers == {"collect_feedback", "show_dialog"}

ValidateNext ==
  \/ \E fn \in Callers, ok \in BOOLEAN : check_gui_create(fn, ok)
  \/ \E fn \in Callers : check_gui_destroy(fn)
  \/ \E fn \in Callers, ok \in BOOLEAN : get_screen_create(fn, ok)
  \/ \E fn \in Callers, big_enough \in BOOLEAN : get_screen_destroy(fn, big_enough)

EditNext ==
  \/ \E text \in Texts : TypeText(text)
  \/ on_select_images
  \/ \E images \in chosen_files(MaxImages - Len(gallery)) : on_select_images_done(images)
  \/ \E image_data \in ClipboardImages \cup {NoImage} : on_paste_image(image_data)
  \/ warning_ok
  \/ \E index \in -1..MaxImages : RemoveGalleryImage(index)
  \/ on_clear_images
  \/ \E yes \in BOOLEAN : on_clear_images_answer(yes)

\* What happens once a call of collect_feedback has started.
HandlerNext ==
  \/ ValidateNext
  \/ get_feedback_dialog
  \/ reset_dialog_state
  \/ show_window
  \/ arm_timeout
  \/ EditNext
  \/ on_submit
  \/ on_cancel
  \/ \E yes \in BOOLEAN : on_cancel_answer(yes)
  \/ on_timeout
  \/ loop_exit
  \/ show_dialog_return
  \/ collect_feedback_return
  \/ keyboard_interrupt
  \/ atexit_cleanup

Next ==
  \/ collect_feedback
  \/ HandlerNext

Spec == Init /\ [][Next]_vars

\* The server on a Tk whose update() can fail.
FaultNext ==
  \/ Next
  \/ update_tclerror

SpecFault == Init /\ [][FaultNext]_vars

\* The server with requests that arrive while a call is running and wait
\* for the handler thread.
RequestNext ==
  \/ tool_request
  \/ handle_request
  \/ HandlerNext

SpecRequests == Init /\ [][RequestNext]_vars

\* The collector's interface used directly, in any order.
SpecCollector == Init /\ [][CollectorNext]_vars

\* The collector used by two threads: one fills, publishes and resets, the
\* other waits for the result.
SpecWaiting == Init /\ [][WaitingNext]_vars

\* Calls in which the user neither submits nor cancels: edits at most, and
\* the caller's wait_for_result.  Tk runs a due after-callback whenever an
\* event loop runs, show_dialog tests its loop condition after every
\* window.update(), and the code after the loop runs once the loop is left.
QuietNext ==
  \/ collect_feedback
  \/ ValidateNext
  \/ get_feedback_dialog
  \/ reset_dialog_state
  \/ show_window
  \/ arm_timeout
  \/ EditNext
  \/ on_timeout
  \/ loop_exit
  \/ show_dialog_return
  \/ collect_feedback_return
  \/ wait_for_result

SpecQuiet ==
  /\ Init
  /\ [][QuietNext]_vars
  /\ WF_vars(on_timeout)
  /\ WF_vars(loop_exit)
  /\ WF_vars(show_dialog_return)
  /\ WF_vars(collect_feedback_return)

\* A client that owns one dialog and drives it directly, as test_ui.py does:
\* dialog = ModernFeedbackDialog(...)
client_new_dialog ==
  /\ pc = Idle /\ window = "none"
  /\ new_dialog
  /\ UNCHANGED <<pc, feedback_dialog, server, returned, history_vars, timeout_seconds, validation, last_call, call_vars>>

\* result = dialog.show_dialog()
client_show_dialog ==
  /\ pc = Idle /\ window # "none"
  /\ cycle < MaxCycles
  /\ pc' = At("show_dialog", "validate")
  /\ caller' = "client"
  /\ first_terminal' = NoTerminal
  /\ UNCHANGED <<cycle, result_cycle, cycle_text, cycle_gallery>>
  /\ UNCHANGED <<feedback_dialog, server, tk_roots, returned>>
  /\ UNCHANGED <<collector_vars, dialog_vars, timeout_seconds, validation, last_call, outcome, pending, waiting, handed, getters>>

\* dialog.destroy(), between two calls of show_dialog or after the last
client_destroy ==
  /\ pc = Idle /\ window # "none"
  /\ destroy
  /\ UNCHANGED <<pc, feedback_dialog, server, returned>>
  /\ UNCHANGED <<is_hidden, result, text_area, gallery, box>>
  /\ UNCHANGED <<collector_vars, history_vars, timeout_seconds, validation, last_call, call_vars>>

DialogNext ==
  \/ client_new_dialog
  \/ client_show_dialog
  \/ client_destroy
  \/ ValidateNext
  \/ reset_dialog_state
  \/ show_window
  \/ arm_timeout
  \/ EditNext
  \/ on_submit
  \/ on_cancel
  \/ \E yes \in BOOLEAN : on_cancel_answer(yes)
  \/ on_timeout
  \/ loop_exit
  \/ show_dialog_return

SpecDialog == Init /\ [][DialogNext]_vars

\* The methods of FeedbackData called on one session, in any order.
SessionAddText(text) ==
  /\ feedback_data' = add_text_feedback(feedback_data, text)
  /\ last_call' = Call("add_text_feedback", text, NoImage, 0, feedback_data)
  /\ UNCHANGED <<result_queue, is_cancelled, is_submitted, wait_result, touched,
                 discarded, first_published>>
  /\ UNCHANGED <<dialog_vars, server_vars, history_vars, timeout_seconds, validation, call_vars>>

SessionAddImage(image_data) ==
  /\ Len(feedback_data.images) < MaxSession
  /\ feedback_data' = add_image(feedback_data, image_data)
  /\ last_call' = Call("add_image", NoneText, image_data, 0, feedback_data)
  /\ UNCHANGED <<result_queue, is_cancelled, is_submitted, wait_result, touched,
                 discarded, first_published>>
  /\ UNCHANGED <<dialog_vars, server_vars, history_vars, timeout_seconds, validation, call_vars>>

SessionRemoveImage(index) ==
  /\ feedback_data' = remove_image(feedback_data, index)
  /\ last_call' = Call("remove_image", NoneText, NoImage, index, feedback_data)
  /\ UNCHANGED <<result_queue, is_cancelled, is_submitted, wait_result, touched,
                 discarded, first_published>>
  /\ UNCHANGED <<dialog_vars, server_vars, history_vars, timeout_seconds, validation, call_vars>>

SessionClearImages ==
  /\ feedback_data' = clear_images(feedback_data)
  /\ last_call' = Call("clear_images", NoneText, NoImage, 0, feedback_data)
  /\ UNCHANGED <<result_queue, is_cancelled, is_submitted, wait_result, touched,
                 discarded, first_published>>
  /\ UNCHANGED <<dialog_vars, server_vars, history_vars, timeout_seconds, validation, call_vars>>

SessionNext ==
  \/ \E text \in TextArgs : SessionAddText(text)
  \/ \E image_data \in ImageArgs : SessionAddImage(image_data)
  \/ \E index \in IndexArgs : SessionRemoveImage(index)
  \/ SessionClearImages

SpecSession == Init /\ [][SessionNext]_vars

\* Both interfaces in one run: a FeedbackCollector used on its own, and then
\* a dialog (with a collector of its own) driven directly.
ApiNext ==
  \/ window = "none" /\ CollectorNext
  \/ DialogNext

SpecApi == Init /\ [][ApiNext]_vars

\* validate_feedback() that drops the images it finds invalid
validate_session_repairs ==
  /\ validation' = [called |-> TRUE, ok |-> validate_feedback(feedback_data).ok,
                    kind |-> validate_feedback(feedback_data).kind,
                    at |-> validate_feedback(feedback_data).at,
                    session |-> feedback_data]
  /\ feedback_data' = [feedback_data EXCEPT
                         !.images = SelectSeq(feedback_data.images,
                                              LAMBDA img : img.data # "")]
  /\ UNCHANGED <<result_queue, is_cancelled, is_submitted, wait_result, touched,
                 discarded, first_published>>
  /\ UNCHANGED <<dialog_vars, server_vars, history_vars, timeout_seconds>>
  /\ UNCHANGED <<last_call, call_vars>>

\* A caller validates the session of a collector: validate_feedback().
validate_session ==
  /\ validation' = [called |-> TRUE, ok |-> validate_feedback(feedback_data).ok,
                    kind |-> validate_feedback(feedback_data).kind,
                    at |-> validate_feedback(feedback_data).at,
                    session |-> feedback_data]
  /\ UNCHANGED <<collector_vars, dialog_vars, server_vars, history_vars, timeout_seconds>>
  /\ UNCHANGED <<last_call, call_vars>>

\* validate_feedback applied to every session of Sessions.
SpecValidate == (\E d \in Sessions : InitWith(d)) /\ [][validate_session]_vars

\* The collector's interface with validate_feedback() called at any point.
CollectorValidateNext ==
  \/ CollectorNext
  \/ validate_session

SpecCollectorValidate == Init /\ [][CollectorValidateNext]_vars

\* The user picks files in the chooser of _select_images; those that load
\* go to the gallery.
select_images_done(file_paths) ==
  /\ Len(gallery) + Len(select_files_dialog(file_paths)) <= MaxImages
  /\ on_select_images_done(select_files_dialog(file_paths))

\* _paste_image with the clipboard holding c.
paste_image(c) == on_paste_image(load_from_clipboard(c))

\* A dialog shown by a client, with images acquired through ImageHandler.
AcquireNext ==
  \/ client_new_dialog
  \/ client_show_dialog
  \/ ValidateNext
  \/ reset_dialog_state
  \/ show_window
  \/ arm_timeout
  \/ on_select_images
  \/ \E file_paths \in UNION {[1..n -> Files] : n \in 0..MaxImages} :
       select_images_done(file_paths)
  \/ \E c \in Clipboards : paste_image(c)
  \/ warning_ok
  \/ on_submit
  \/ on_timeout
  \/ loop_exit
  \/ show_dialog_return

SpecAcquire == Init /\ [][AcquireNext]_vars

\* collect_feedback called on several threads, followed through
\* _get_feedback_dialog only; the dialogs are told apart by the order in
\* which they were made and nothing else of them is followed.
getters_only ==
  UNCHANGED <<collector_vars, dialog_vars, server_vars, history_vars, timeout_seconds,
              validation, last_call, caller, outcome, pending, waiting, handed>>

\* `if _feedback_dialog is None:` evaluated by thread t
get_dialog_test(t) ==
  /\ server = "running"
  /\ getters.at[t] = "out"
  /\ getters' = [getters EXCEPT
                   !.at[t] = IF getters.global = 0 THEN "make" ELSE "return"]
  /\ getters_only

\* `_feedback_dialog = ModernFeedbackDialog(DIALOG_TIMEOUT)` by thread t
get_dialog_make(t) ==
  /\ getters.at[t] = "make"
  /\ getters.made < MaxDialogs
  /\ getters' = [getters EXCEPT !.at[t] = "return", !.made = @ + 1,
                                 !.global = getters.made + 1]
  /\ getters_only

\* `return _feedback_dialog` by thread t
get_dialog_return(t) ==
  /\ getters.at[t] = "return"
  /\ getters' = [getters EXCEPT !.at[t] = "got", !.got[t] = getters.global]
  /\ getters_only

\* The call of thread t, which used the dialog it got, has ended.
get_dialog_done(t) ==
  /\ getters.at[t] = "got"
  /\ getters' = [getters EXCEPT !.at[t] = "out", !.got[t] = 0]
  /\ getters_only

\* _cleanup_dialogs() with no call running: the dialog the global holds is
\* destroyed and the global set to None.
cleanup_between_calls ==
  /\ \A t \in Threads : getters.at[t] = "out"
  /\ getters' = [getters EXCEPT
                   !.destroyed = IF getters.global # 0 THEN @ \cup {getters.global} ELSE @,
                   !.global = 0]
  /\ getters_only

ThreadsNext ==
  \/ \E t \in Threads : get_dialog_test(t)
  \/ \E t \in Threads : get_dialog_make(t)
  \/ \E t \in Threads : get_dialog_return(t)
  \/ \E t \in Threads : get_dialog_done(t)
  \/ cleanup_between_calls

SpecThreads == Init /\ [][ThreadsNext]_vars

\* The texts a caller submits: blank, padded, and at and past the limit of
\* validate_feedback.
SubmitTexts ==
  {<<" ">>, <<" ", "a", " ">>, LongText(MAX_TEXT_LENGTH), LongText(MAX_TEXT_LENGTH + 1)}

\* A caller fills the session of a collector, validates it at any point
\* and submits it once.
SubmitNext ==
  \/ \E text \in SubmitTexts : SessionAddText(text)
  \/ \E image_data \in ClipboardImages : CollectorAddImage(image_data)
  \/ validate_session
  \/ result_queue = <<>> /\ submit_feedback

SpecSubmit == Init /\ [][SubmitNext]_vars

\* A caller that holds the dict to_dict() built and goes on using the
\* session: the FeedbackData methods and the collector's reset().
SnapshotEdit(d) ==
  /\ feedback_data' = d
  /\ handed' = IF d.images # feedback_data.images
               THEN after_list_change(handed, d.images) ELSE handed
  /\ UNCHANGED <<result_queue, is_cancelled, is_submitted, wait_result, touched,
                 discarded, first_published>>
  /\ UNCHANGED <<dialog_vars, server_vars, history_vars, timeout_seconds,
                 validation, last_call, caller, outcome, pending, waiting, getters>>

SnapshotAddText(text) == SnapshotEdit(add_text_feedback(feedback_data, text))

SnapshotAddImage(image_data) ==
  /\ Len(feedback_data.images) < MaxImages
  /\ SnapshotEdit(add_image(feedback_data, image_data))

SnapshotRemoveImage(index) == SnapshotEdit(remove_image(feedback_data, index))

SnapshotClearImages == SnapshotEdit(clear_images(feedback_data))

SnapshotToDict ==
  /\ handed' = Handed(feedback_data)
  /\ UNCHANGED <<collector_vars, dialog_vars, server_vars, history_vars,
                 timeout_seconds, validation, last_call, caller, outcome, pending, waiting, getters>>

SnapshotReset ==
  /\ reset
  /\ handed' = after_new_session(handed)
  /\ UNCHANGED <<dialog_vars, server_vars, history_vars, timeout_seconds,
                 validation, last_call, caller, outcome, pending, waiting, getters>>

SnapshotNext ==
  \/ \E text \in Texts \cup {NoneText} : SnapshotAddText(text)
  \/ \E image_data \in ClipboardImages \cup FileImages : SnapshotAddImage(image_data)
  \/ \E index \in -1..MaxImages : SnapshotRemoveImage(index)
  \/ SnapshotClearImages
  \/ SnapshotToDict
  \/ SnapshotReset

SpecSnapshot == Init /\ [][SnapshotNext]_vars

\* -------------------------------------------------------------- claims
InCycle == pc.fn = "show_dialog" /\ pc.at \in {"show", "arm", "loop", "after_loop"}

Pristine ==
  /\ result_queue = <<>>
  /\ ~is_submitted
  /\ ~is_cancelled
  /\ feedback_data = NewFeedbackData

\* C1: between two resets only the first publish has an effect: once a
\* result has been published, a step that is not a reset leaves the flags
\* alone and adds nothing to the queue, and every result wait_for_result
\* takes from the queue is that first published result.
C1_FirstPublishWins ==
  [][(first_published.published /\ first_published'.published)
       => /\ is_submitted' = is_submitted
          /\ is_cancelled' = is_cancelled
          /\ \/ result_queue' = result_queue
             \/ /\ result_queue # <<>>
                /\ result_queue' = Tail(result_queue)
                /\ wait_result'.res = first_published.res]_vars

\* C2: the first terminal action of a cycle wins: once one has set
\* self.result, no later step of the same call changes self.result, and
\* show_dialog returns the result the first terminal action set.
C2_FirstTerminalWins ==
  [][(first_terminal.kind # "none" /\ first_terminal' = first_terminal)
       => /\ result' = result
          /\ (pc = At("show_dialog", "after_loop") /\ pc' = ReturnTo)
               => returned' = first_terminal.res]_vars

\* C3: a reset leaves nothing of the cycle before it: until the collector
\* is used again the queue is empty, both flags are false and feedback_data
\* is a new session; no queued result and no result wait_for_result has
\* returned was published before the latest reset.
C3_ResetIsolates ==
  /\ ~touched => Pristine
  /\ \A i \in 1..Len(result_queue) : ~result_queue[i].stale
  /\ ~wait_result.stale

\* C3 witness: a reset has discarded results nobody had consumed, nothing
\* has been published since, and a wait_for_result has returned.
C3_Witness ==
  /\ discarded > 0
  /\ ~touched
  /\ wait_result.called

\* C4: with a positive timeout and no submit or cancel, wait_for_result
\* returns None, and every cycle that has entered the event loop ends with
\* show_dialog returning the timeout result, in every cycle of the run.
C4_TimeoutEnds ==
  /\ []((timeout_seconds > 0 /\ wait_result.called) => wait_result.res = None)
  /\ (InLoop /\ timeout_seconds > 0)
       ~> (pc = Idle /\ returned = Failure("timeout_error"))

\* C4 witness: the second cycle of a run has returned the timeout result
\* after its timer fired, and a wait_for_result has timed out.
C4_Witness ==
  /\ timeout_seconds > 0
  /\ cycle = 2
  /\ pc = Idle
  /\ first_terminal.kind = "timeout"
  /\ returned = Failure("timeout_error")
  /\ wait_result.called

\* C5: a timeout of 0 or less disables the timeout on both sides: no timer
\* is armed, no cycle ends by timeout, and wait_for_result returns nothing
\* but a published result.
C5_NonPositiveTimeoutNeverTimesOut ==
  timeout_seconds <= 0 =>
    /\ ~timeout_job
    /\ ~timer_pending
    /\ first_terminal.kind # "timeout"
    /\ wait_result.called => /\ wait_result.res # None
                             /\ wait_result.res # Failure("wait_failed")

\* C6: every cycle starts, before the window is shown, with no result, an
\* empty text, an empty gallery and a reset collector; during the cycle the
\* text and the gallery are what the edits of this cycle alone produce, and
\* the result a cycle returns was set in this cycle.
C6_CyclesIndependent ==
  /\ pc = At("show_dialog", "show")
       => /\ result = None
          /\ ~is_hidden
          /\ get_text(text_area) = <<>>
          /\ gallery = <<>>
          /\ Pristine
  /\ InCycle => /\ text_area = cycle_text
                /\ gallery = cycle_gallery
                /\ result_cycle \in {0, cycle}
                /\ result_cycle = 0 <=> result = None
  /\ (pc = Idle /\ first_terminal.kind # "none")
       => /\ returned = result
          /\ result_cycle = cycle

\* C6 witness: the second cycle has been reset and is about to show the
\* window, after a first cycle that returned a submitted text and image.
C6_Witness ==
  /\ cycle = 2
  /\ pc = At("show_dialog", "show")
  /\ returned.success
  /\ returned.has_text
  /\ returned.has_images

\* C7: from the creation of the dialog's window to its destruction there is
\* exactly one live Tk root window, and never more than one at any time.
C7_ExactlyOneRoot ==
  /\ tk_roots <= 1
  /\ window = "live" => tk_roots = 1

\* C8: a hidden dialog always holds a result, which is a submitted, a
\* cancelled or a timed-out one, and the result set when the dialog was
\* hidden is the one show_dialog returns.
C8_OneResultPerCycle ==
  /\ is_hidden => /\ result # None
                  /\ result.message \in {"submit_success", "operation_cancelled",
                                         "timeout_error"}
                  /\ result.success <=> result.message = "submit_success"
  /\ (pc = Idle /\ first_terminal.kind # "none") => returned = first_terminal.res

\* C9: once a submit or a confirmed cancel has ended a cycle, _on_timeout
\* does not run any more, and no timer is left pending when show_dialog has
\* returned.
C9_NoTimeoutAfterTerminal ==
  [][/\ first_terminal.kind \in {"submit", "cancel"} => ~on_timeout
     /\ pc' = Idle => ~timer_pending']_vars

\* C10: the window is released only while the dialog is hidden: no step
\* destroys a window that is on screen.
C10_DestroyOnlyFromHidden ==
  [][(window = "live" /\ window' = "null") => ~mapped]_vars

\* C11: Destroyed is terminal: an instance whose window has been destroyed
\* stays destroyed, has no window on screen and no timer armed, and every
\* show_dialog call on it ends with the gui_error failure dict.
C11_DestroyedIsTerminal ==
  /\ [](window = "null" => ~mapped /\ ~timeout_job /\ ~timer_pending)
  /\ [][/\ window = "null" => window' = "null"
        /\ (window = "null" /\ pc.fn = "show_dialog" /\ pc' = Idle)
             => /\ returned' = Failure("gui_error")
                /\ ~returned'.success]_vars

\* C11 witness: the second show_dialog call on a destroyed instance got as
\* far as its reset, which cleared the fields, and has returned the failure
\* dict.
C11_Witness ==
  /\ window = "null"
  /\ pc = Idle
  /\ cycle = 2
  /\ result = None
  /\ first_terminal.kind = "none"
  /\ returned = Failure("gui_error")

\* C12: the destroy that releases the window leaves no timeout job and no
\* pending timer and releases exactly that one window; a destroy() or a
\* _cleanup_dialogs() (from the interrupt handler or from atexit) that finds
\* no live window changes nothing of the dialog, the collector or the roots.
C12_DestroyIdempotent ==
  [][/\ (window = "live" /\ window' = "null")
          => /\ ~timeout_job'
             /\ ~timer_pending'
             /\ tk_roots' = tk_roots - 1
     /\ ((server' # server \/ client_destroy) /\ window # "live")
          => UNCHANGED <<collector_vars, dialog_vars, tk_roots, feedback_dialog,
                         returned, history_vars>>]_vars

\* C12 witness: the interrupt handler destroyed a hidden dialog whose call
\* had not returned yet, with the timer of a submitted cycle still armed,
\* and atexit has run _cleanup_dialogs() once more.
C12_Witness ==
  /\ server = "exited"
  /\ window = "null"
  /\ pc = Aborted
  /\ timeout_seconds > 0
  /\ is_hidden
  /\ result.success
  /\ returned # result
  /\ ~timeout_job
  /\ ~timer_pending

\* C13: whenever submit_feedback publishes a success result, the session it
\* was built from passes validate_feedback.
C13_SubmittedIsValid ==
  [][(/\ Len(result_queue') > Len(result_queue)
      /\ result_queue'[Len(result_queue')].res.success)
       => validate_feedback(feedback_data).ok]_vars

\* C14: a submit on an empty session publishes nothing: submit_feedback
\* leaves the queue, the flags and the session as they are, and _on_submit
\* leaves self.result, is_hidden, the window, the timer and the contents as
\* they are and show_dialog in its loop.
C14_EmptySubmitPublishesNothing ==
  [][/\ (submit_feedback /\ ~is_valid(feedback_data))
          => UNCHANGED <<result_queue, is_submitted, is_cancelled, feedback_data,
                         first_published>>
     /\ (on_submit /\ strip(get_text(text_area)) = <<>> /\ gallery = <<>>)
          => UNCHANGED <<result, is_hidden, mapped, window, timeout_job,
                         timer_pending, text_area, gallery, pc, returned,
                         first_terminal>>]_vars

\* C14 witness: the warning of an empty submit is open on a visible dialog
\* that holds whitespace only, with no result set and the timer still armed.
C14_Witness ==
  /\ InLoop
  /\ box = "no_feedback"
  /\ text_area = <<" ">>
  /\ gallery = <<>>
  /\ mapped
  /\ ~is_hidden
  /\ result = None
  /\ timer_pending

\* C15: a cancel on a visible dialog with content only opens the
\* confirmation; the answer no changes nothing, the answer yes sets the
\* cancelled result and hides the window; a step that sets the cancelled
\* result on a dialog with content is the answer to the confirmation.  With
\* no content, cancel sets the cancelled result and hides the window at once.
C15_CancelConfirmed ==
  [][LET has_content == strip(get_text(text_area)) # <<>> \/ gallery # <<>>
         cancelled == Failure("operation_cancelled")
     IN /\ (on_cancel /\ mapped /\ has_content)
             => /\ box' = "cancel"
                /\ UNCHANGED <<result, is_hidden, mapped, window, text_area, gallery,
                               timeout_job, timer_pending, pc, returned>>
        /\ on_cancel_answer(FALSE)
             => UNCHANGED <<result, is_hidden, mapped, window, text_area, gallery,
                            timeout_job, timer_pending, pc, returned>>
        /\ (on_cancel_answer(TRUE) /\ mapped)
             => (result' = cancelled /\ is_hidden' /\ ~mapped')
        /\ (has_content /\ result # cancelled /\ result' = cancelled)
             => box = "cancel"
        /\ (on_cancel /\ mapped /\ ~has_content)
             => (result' = cancelled /\ is_hidden' /\ ~mapped' /\ box' = "none")]_vars

\* C15 witness: the confirmation of a cancel is open on a visible dialog
\* that holds a text and an image, with no result set and the timer armed.
C15_Witness ==
  /\ InLoop
  /\ box = "cancel"
  /\ strip(get_text(text_area)) # <<>>
  /\ gallery # <<>>
  /\ mapped
  /\ ~is_hidden
  /\ result = None
  /\ timer_pending

\* C16: validate_feedback fails exactly when the session has neither text
\* nor images, or a text of more than 10000 characters, or more than 10
\* images, or an image without payload, and it reports the first of these
\* in that order, the invalid image being the lowest one.
C16_ValidateOrder ==
  validation.called =>
    LET d == feedback_data
        no_feedback == d.text_feedback \in {NoneText, <<>>} /\ d.images = <<>>
        text_too_long == d.text_feedback # NoneText
                           /\ Len(d.text_feedback) > MAX_TEXT_LENGTH
        too_many_images == Len(d.images) > MAX_IMAGE_COUNT
        invalid == {i \in 1..Len(d.images) : d.images[i].data = ""}
        lowest == CHOOSE i \in invalid : \A j \in invalid : i <= j
    IN /\ validation.ok <=>
            ~(no_feedback \/ text_too_long \/ too_many_images \/ invalid # {})
       /\ validation.kind =
            IF no_feedback THEN "no_feedback"
            ELSE IF text_too_long THEN "text_too_long"
            ELSE IF too_many_images THEN "too_many_images"
            ELSE IF invalid # {} THEN "invalid_image"
            ELSE "ok"
       /\ validation.kind = "invalid_image" => validation.at = lowest

\* C16 witness: a text of 10001 characters together with 11 images, one of
\* them without payload, has been validated and reported as text too long.
C16_Witness ==
  /\ validation.called
  /\ Len(feedback_data.text_feedback) = MAX_TEXT_LENGTH + 1
  /\ Len(feedback_data.images) = MAX_IMAGE_COUNT + 1
  /\ feedback_data.images[2].data = ""
  /\ validation.kind = "text_too_long"

\* C17: after any sequence of add_text_feedback, add_image, remove_image
\* and clear_images on a new session, has_text says that the text is not
\* None, not empty and its own trimmed form, has_images says that there are
\* images, and is_valid() says that one of the two holds.
C17_FlagsFollowContents ==
  LET d == feedback_data
      text_stored == /\ d.text_feedback # NoneText
                     /\ d.text_feedback # <<>>
                     /\ d.text_feedback[1] # " "
                     /\ d.text_feedback[Len(d.text_feedback)] # " "
  IN /\ d.has_text <=> text_stored
     /\ d.has_images <=> d.images # <<>>
     /\ is_valid(d) <=> (text_stored \/ d.images # <<>>)

\* C17 witness: the removal of its only image has left a session with a
\* stored text and no images.
C17_Witness ==
  /\ last_call.op = "remove_image"
  /\ last_call.index = 0
  /\ Len(last_call.before.images) = 1
  /\ last_call.before.has_images
  /\ feedback_data.has_text
  /\ feedback_data.text_feedback = <<"a", "a">>
  /\ feedback_data.images = <<>>
  /\ ~feedback_data.has_images

\* C18: add_text_feedback(s) with s None, empty or blank leaves the session
\* as it was; otherwise the text stored is s without its leading and
\* trailing blanks, has_text is set and the images are as they were.
C18_AddTextTrims ==
  last_call.op = "add_text_feedback" =>
    LET s == last_call.text
        d == feedback_data
        blank == s = NoneText \/ \A i \in 1..Len(s) : s[i] = " "
        first == CHOOSE i \in 1..Len(s) : s[i] # " " /\ \A j \in 1..(i - 1) : s[j] = " "
        last == CHOOSE i \in 1..Len(s) : s[i] # " " /\ \A j \in (i + 1)..Len(s) : s[j] = " "
    IN IF blank
       THEN d = last_call.before
       ELSE /\ d.text_feedback = SubSeq(s, first, last)
            /\ d.has_text
            /\ d.images = last_call.before.images
            /\ d.has_images = last_call.before.has_images

\* C18 witness: a blank text has been passed to a session that held a text
\* and an image, and the text held is still there.
C18_Witness ==
  /\ last_call.op = "add_text_feedback"
  /\ last_call.text = <<" ", " ">>
  /\ last_call.before.text_feedback = <<"a">>
  /\ feedback_data.text_feedback = <<"a">>
  /\ feedback_data.has_text
  /\ feedback_data.images # <<>>

\* C19: add_image(a) with a None leaves the session as it was; with an
\* attachment whose payload is empty it is rejected and leaves the session
\* as it was; with any other attachment it appends a at the end of the list
\* and sets has_images.
C19_EmptyPayloadRejected ==
  last_call.op = "add_image" =>
    LET a == last_call.image_data
        d == feedback_data
    IN IF a = NoImage \/ a.data = ""
       THEN d = last_call.before
       ELSE /\ d.images = Append(last_call.before.images, a)
            /\ d.has_images
            /\ d.text_feedback = last_call.before.text_feedback
            /\ d.has_text = last_call.before.has_text

\* C20: remove_image(i) with i < 0 or i >= len(images) leaves the session
\* as it was; otherwise the list is the old one without its element at
\* index i (counted from 0), the others in their order, and the text is as
\* it was.
C20_RemoveKeepsOrder ==
  last_call.op = "remove_image" =>
    LET i == last_call.index
        old == last_call.before
        d == feedback_data
    IN IF i < 0 \/ i >= Len(old.images)
       THEN d = old
       ELSE /\ Len(d.images) = Len(old.images) - 1
            /\ \A j \in 1..Len(d.images) :
                  d.images[j] = IF j <= i THEN old.images[j] ELSE old.images[j + 1]
            /\ d.has_images <=> Len(old.images) > 1
            /\ d.text_feedback = old.text_feedback
            /\ d.has_text = old.has_text

\* C20 witness: the middle one of three different images has been removed
\* from a session with a text, and the first and the last are left in
\* their order.
C20_Witness ==
  /\ last_call.op = "remove_image"
  /\ last_call.index = 1
  /\ Len(last_call.before.images) = 3
  /\ last_call.before.images[1] # last_call.before.images[2]
  /\ last_call.before.images[2] # last_call.before.images[3]
  /\ last_call.before.images[1] # last_call.before.images[3]
  /\ feedback_data.images = <<last_call.before.images[1], last_call.before.images[3]>>
  /\ feedback_data.has_text

\* C21: the list a collect_feedback call returns is the text part, if the
\* trimmed text of the cycle is not empty, carrying that text behind its
\* label, followed by one image part for every image of the cycle's gallery,
\* in the gallery's order; so there is at most one text part, it is the
\* first element, and none follows an image part.
C21_ItemsOrdered ==
  [][(collect_feedback_return /\ outcome'.kind = "returned")
       => LET items == outcome'.items
              t == strip(cycle_text)
              g == cycle_gallery
              texts == {i \in 1..Len(items) : items[i].type = "text"}
          IN /\ items = (IF t # <<>>
                         THEN <<[type |-> "text", text |-> <<"user_text_feedback">> \o t,
                                 data |-> ""]>>
                         ELSE <<>>)
                          \o [i \in 1..Len(g) |->
                                [type |-> "image", text |-> <<>>, data |-> g[i].data]]
             /\ Cardinality(texts) <= 1
             /\ texts \subseteq {1}
             /\ items # <<>>]_vars

\* C21 witness: a call has returned a text part followed by the parts of
\* two different images, a file's and then the clipboard's.
C21_Witness ==
  /\ pc = Idle
  /\ outcome.kind = "returned"
  /\ Len(outcome.items) = 3
  /\ outcome.items[1].type = "text"
  /\ outcome.items[1].text = <<"user_text_feedback", "a">>
  /\ outcome.items[2] = MCPImage("jpg")
  /\ outcome.items[3] = MCPImage("png")
  /\ cycle_text = <<" ", "a">>
  /\ cycle_gallery = <<[data |-> "jpg", source |-> "file"],
                       [data |-> "png", source |-> "clipboard"]>>

\* C22: a collect_feedback call whose environment validation failed, whose
\* cycle was ended by the timer or whose cycle was ended by a cancel raises
\* and returns no list, and the message is that of its case: the
\* validation's own message, the timeout message or the cancel message.
C22_ErrorIdentifiesCase ==
  [][/\ (pc.fn = "collect_feedback" /\ pc.at \in {"validate", "screen_root"}
            /\ pc' = Idle)
          => /\ outcome'.kind = "raised"
             /\ outcome'.message[2] \in {"gui_unavailable", "resolution_too_low"}
     /\ (collect_feedback_return /\ first_terminal.kind = "timeout")
          => /\ outcome'.kind = "raised"
             /\ outcome'.message = <<"feedback_collection_failed", "timeout_error">>
     /\ (collect_feedback_return /\ first_terminal.kind = "cancel")
          => /\ outcome'.kind = "raised"
             /\ outcome'.message = <<"feedback_collection_failed", "operation_cancelled">>]_vars

\* The handler is inside validate_gui_environment.
Validating == pc.at \in {"validate", "test_root", "screen", "screen_root"}

\* C23: a failed environment validation ends the call at once: a step of
\* the validation changes nothing of the dialog, the collector or the cycle
\* count; when it fails in collect_feedback the call raises with the
\* validation's message and no dialog has been created by it; when it fails
\* in show_dialog the call returns the failure dict to its caller, which does
\* not call again.
C23_EnvironmentFailurePropagates ==
  [][/\ (Validating /\ ~keyboard_interrupt)
          => UNCHANGED <<dialog_vars, collector_vars, cycle, feedback_dialog>>
     /\ (\/ check_gui_create("collect_feedback", FALSE)
         \/ get_screen_destroy("collect_feedback", FALSE))
          => /\ pc' = Idle
             /\ outcome'.kind = "raised"
             /\ outcome'.message[2] \in {"gui_unavailable", "resolution_too_low"}
     /\ (\/ check_gui_create("show_dialog", FALSE)
         \/ get_screen_destroy("show_dialog", FALSE))
          => /\ pc' = ReturnTo
             /\ returned' = Failure("gui_error")
             /\ ~returned'.success
     /\ (collect_feedback_return /\ ~returned.success)
          => /\ pc' = Idle
             /\ outcome'.kind = "raised"
             /\ UNCHANGED <<dialog_vars, collector_vars, cycle>>]_vars

\* C23 witness: the second call of collect_feedback passed its own
\* validation, show_dialog failed its validation on the live dialog and has
\* returned the failure dict; the cycle count is still that of the first call.
C23_Witness ==
  /\ pc = At("collect_feedback", "result")
  /\ window = "live"
  /\ cycle = 1
  /\ first_terminal.kind = "none"
  /\ returned = Failure("gui_error")
  /\ ~mapped
  /\ ~timer_pending

TextOnly ==
  /\ last_call.op = "add_text_feedback"
  /\ last_call.text # NoneText
  /\ \E i \in 1..Len(last_call.text) : last_call.text[i] # " "
  /\ Len(last_call.text) <= MAX_TEXT_LENGTH
  /\ feedback_data.has_text
  /\ feedback_data.images = <<>>

\* C26: submit_feedback on a session that holds only a text t, not blank
\* and at most 10000 characters long, publishes one result with success,
\* whose text is t without its leading and trailing blanks and whose image
\* list is empty, and validate_feedback on that session returns ok.
C26_TextOnlySubmit ==
  [][LET t == last_call.text
         first == CHOOSE i \in 1..Len(t) : t[i] # " " /\ \A j \in 1..(i - 1) : t[j] = " "
         last == CHOOSE i \in 1..Len(t) : t[i] # " " /\ \A j \in (i + 1)..Len(t) : t[j] = " "
         r == result_queue'[Len(result_queue')].res
     IN /\ (submit_feedback /\ TextOnly)
             => /\ Len(result_queue') = Len(result_queue) + 1
                /\ r.success
                /\ r.text_feedback = SubSeq(t, first, last)
                /\ r.has_text
                /\ r.images = <<>>
                /\ ~r.has_images
                /\ r.image_count = 0
                /\ is_submitted'
        /\ (validate_session /\ TextOnly)
             => (validation'.ok /\ validation'.kind = "ok")]_vars

\* C26 witness: a padded text has replaced a longer one in a session
\* without images, has been validated as ok and submitted, and the result
\* published carries the text without its blanks.
C26_Witness ==
  /\ TextOnly
  /\ last_call.text = <<" ", "a", " ">>
  /\ Len(last_call.before.text_feedback) = MAX_TEXT_LENGTH
  /\ validation.called
  /\ validation.ok
  /\ is_submitted
  /\ Len(result_queue) = 1
  /\ result_queue[1].res.success
  /\ result_queue[1].res.text_feedback = <<"a">>
  /\ result_queue[1].res.images = <<>>

\* C27: the result queue holds at most one unconsumed result in every
\* state the collector's interface can reach.
C27_SingleSlot == Len(result_queue) <= 1

\* C28: a wait_for_result that returns None found the queue empty and
\* leaves it empty, and leaves is_submitted, is_cancelled and the session as
\* they were; a wait_for_result called after one that returned None, with
\* a result in the queue, returns the oldest queued result, which was
\* published after the latest reset.
C28_TimeoutDoesNotPublish ==
  [][/\ (wait_for_result /\ wait_result'.res = None)
          => /\ result_queue = <<>>
             /\ result_queue' = <<>>
             /\ UNCHANGED <<is_submitted, is_cancelled, feedback_data, first_published>>
     /\ (wait_for_result /\ wait_result.called /\ wait_result.res = None
           /\ result_queue # <<>>)
          => /\ wait_result'.res = result_queue[1].res
             /\ wait_result'.res # None
             /\ ~wait_result'.stale
             /\ result_queue' = Tail(result_queue)]_vars

\* C28 witness: the last wait_for_result returned None, and a submit after
\* it has published a result that is waiting in the queue.
C28_Witness ==
  /\ wait_result.called
  /\ wait_result.res = None
  /\ Len(result_queue) = 1
  /\ result_queue[1].res.success
  /\ is_submitted
  /\ ~is_cancelled

\* C29: a publish never waits for the caller: whether or not a thread is
\* inside wait_for_result, a result is still unconsumed or the last wait
\* has timed out, cancel_feedback and submit_feedback can run, and the step
\* they take leaves the waiting thread where it is and, unless the session
\* is empty, adds one result to the queue.
C29_PublishNeverBlocks ==
  /\ [](Len(result_queue) < MaxQueue
          => (ENABLED cancel_feedback /\ ENABLED submit_feedback))
  /\ [][/\ cancel_feedback
             => (Len(result_queue') = Len(result_queue) + 1 /\ waiting' = waiting)
        /\ submit_feedback
             => /\ waiting' = waiting
                /\ Len(result_queue') =
                     Len(result_queue) + (IF is_valid(feedback_data) THEN 1 ELSE 0)]_vars

\* C29 witness: one thread is inside wait_for_result after an earlier wait
\* that timed out, and a submit and a cancel have both published while
\* nothing was consumed.
C29_Witness ==
  /\ waiting
  /\ wait_result.called
  /\ wait_result.res = None
  /\ Len(result_queue) = 2
  /\ result_queue[1].res.success
  /\ ~result_queue[2].res.success
  /\ is_submitted
  /\ is_cancelled

C32_ImagesWithinBounds ==
  \A i \in 1..Len(gallery) :
    /\ gallery[i].file_size >= 1
    /\ gallery[i].file_size <= MAX_FILE_SIZE
    /\ gallery[i].width <= MAX_IMAGE_SIZE
    /\ gallery[i].height <= MAX_IMAGE_SIZE

\* C33: every image part collect_feedback returns, which it labels
\* format='png', carries a PNG-encoded payload.
C33_PartsArePng ==
  outcome.kind = "returned"
    => \A i \in 1..Len(outcome.items) :
         outcome.items[i].type = "image" => outcome.items[i].data = "png"

C35_CountsAgree ==
  \A i \in 1..Len(result_queue) :
    result_queue[i].res.success
      => /\ result_queue[i].res.image_count = Len(result_queue[i].res.images)
         /\ result_queue[i].res.image_count = Len(result_queue[i].res.image_sources)
         /\ result_queue[i].res.has_images <=> result_queue[i].res.images # <<>>
         /\ result_queue[i].res.has_text
              <=> result_queue[i].res.text_feedback \notin {NoneText, <<>>}

\* C36: collect_feedback raises the timeout error only for a cycle in which
\* the timer fired: the result show_dialog returned is the one _on_timeout
\* set in this cycle.
C36_TimeoutOnlyWhenTimerFired ==
  [][(collect_feedback_return
        /\ outcome'.message = <<"feedback_collection_failed", "timeout_error">>)
       => returned = Failure("timeout_error")]_vars

\* C37: a successful collect_feedback never returns an empty list: when
\* show_dialog has returned a result with success set, the list returned
\* holds the text part or at least one image part.
C37_SuccessNotEmpty ==
  [][(collect_feedback_return /\ returned # None /\ returned.success)
       => /\ outcome'.kind = "returned"
          /\ Len(outcome'.items) >= 1
          /\ \/ outcome'.items[1].type = "text"
             \/ outcome'.items[1].type = "image" /\ outcome'.items[1].data # ""]_vars

\* C37 witness: a cycle submitted with an empty text and one pasted image
\* has returned a list of that one image part.
C37_Witness ==
  /\ outcome.kind = "returned"
  /\ Len(outcome.items) = 1
  /\ outcome.items[1].type = "image"
  /\ returned.success
  /\ ~returned.has_text
  /\ returned.text_feedback = <<>>
  /\ cycle_text = <<>>
  /\ pc = Idle

\* C38: the server holds at most one feedback dialog at a time and every
\* call gets the one the global holds, never a destroyed one, also when two
\* calls are inside _get_feedback_dialog at the same time.
C38_OneDialogInstance ==
  /\ Cardinality({i \in 1..getters.made : i \notin getters.destroyed}) <= 1
  /\ \A t \in Threads :
       getters.at[t] = "got"
         => /\ getters.got[t] # 0
            /\ getters.got[t] = getters.global
            /\ getters.got[t] \notin getters.destroyed

\* C39: is_hidden agrees with the visibility of the window: while the
\* dialog has its window, is_hidden is set exactly when the window is
\* withdrawn.
C39_HiddenFlagAgrees ==
  window = "live" => (is_hidden <=> ~mapped)

====
